---- MODULE Spec2Model ----
(***************************************************************************)
(* Model of the DCL peer discovery crawlers.                               *)
(*                                                                         *)
(*   prog = "pn"   peer_network.py : web server, /api/start spawns a       *)
(*                 start_discovery thread, crawl_worker tasks in a pool,   *)
(*                 shared state guarded (in places) by one lock.           *)
(*   prog = "dp"   discover_peers.py : the script, crawl_network with a    *)
(*                 pool of discover_from_node tasks (no lock), then        *)
(*                 check_rpc_accessibility.                                *)
(*   prog = "edge" add_edge alone, called sequentially on arbitrary pairs. *)
(*   prog = "classify"  get_node_type alone, called on a set of names.     *)
(*   prog = "log"  log alone, called more often than the log has room.     *)
(*   prog = "pool" the `with ThreadPoolExecutor(max_workers=n)` block of   *)
(*                 one run with a batch larger than n, or of two           *)
(*                 start_discovery threads in progress together; the tasks *)
(*                 are reduced to start/end.                               *)
(*                                                                         *)
(* Threads are interleaved at the granularity of the Python code: a        *)
(* `with lock:` block is one step, an unlocked read or write of a shared   *)
(* object is one step, and an RPC call (no shared state) is merged into    *)
(* the step that follows or precedes it.                                   *)
(***************************************************************************)
EXTENDS Integers, Sequences, FiniteSets, TLC

----------------------------------------------------------------------------
(* Bounds of the model *)

\* number of /api/start requests the browser sends to peer_network.py
MaxStarts == 2

\* number of add_edge calls made one after the other when prog = "edge"
MaxEdgeCalls == 3

\* the iteration counter of the crawl loop is kept up to this value
IterCap == 3

\* number of GET /api/network requests the browser sends during a crawl
MaxReads == 1

\* number of log calls made one after the other when prog = "log"
MaxLogCalls == 102

\* the largest batch submitted to a pool when prog = "pool"
MaxTasks == 22

\* the batch of each of two runs in progress together when prog = "pool"
OverlapBatch == 6

(* Program constants *)

\* peer_network.py line 53: the log keeps the last 100 messages
LogMax == 100

\* gossip port stored in every node record
P2PPort == 26656

\* RPC port of the synthesized rpc_url
RpcPort == 26657

\* ThreadPoolExecutor(max_workers=10) of the crawl loops
ExpansionWorkers == 10

\* ThreadPoolExecutor(max_workers=20) of check_rpc_accessibility
SweepWorkers == 20

----------------------------------------------------------------------------
(* Strings are tuples of one-character strings, so that lower(), "in",     *)
(* endswith and split can be computed.                                     *)

UpperLetters == <<"A","B","C","D","E","F","G","H","I","J","K","L","M",
                  "N","O","P","Q","R","S","T","U","V","W","X","Y","Z">>

LowerLetters == <<"a","b","c","d","e","f","g","h","i","j","k","l","m",
                  "n","o","p","q","r","s","t","u","v","w","x","y","z">>

LowerChar(c) ==
  IF \E i \in 1..26 : UpperLetters[i] = c
  THEN LowerLetters[CHOOSE i \in 1..26 : UpperLetters[i] = c]
  ELSE c

\* str.lower()
Lower(s) == [i \in 1..Len(s) |-> LowerChar(s[i])]

\* sub in s
Contains(s, sub) ==
  \E i \in 0..(Len(s) - Len(sub)) : SubSeq(s, i + 1, i + Len(sub)) = sub

\* s.endswith(sub)
EndsWith(s, sub) ==
  /\ Len(s) >= Len(sub)
  /\ SubSeq(s, Len(s) - Len(sub) + 1, Len(s)) = sub

\* mutant of get_node_type: the sentry rule is tried before the validator
\* rule
get_node_type_sentry_first(moniker) ==
  LET m == Lower(moniker) IN
  IF Contains(m, <<"-","s","n","-">>)
     \/ Contains(m, <<"s","e","n","t","r","y">>)
  THEN "sentry"
  ELSE IF Contains(m, <<"-","v","n","-">>) \/ EndsWith(m, <<"-","v","n">>)
  THEN "validator"
  ELSE IF Contains(m, <<"-","o","n","-">>)
          \/ Contains(m, <<"o","b","s","e","r","v","e","r">>)
  THEN "observer"
  ELSE IF Contains(m, <<"s","e","e","d">>)
  THEN "seed"
  ELSE "unknown"

\* get_node_type(moniker)
get_node_type(moniker) ==
  LET m == Lower(moniker) IN
  IF Contains(m, <<"-","v","n","-">>) \/ EndsWith(m, <<"-","v","n">>)
  THEN "validator"
  ELSE IF Contains(m, <<"-","s","n","-">>)
          \/ Contains(m, <<"s","e","n","t","r","y">>)
  THEN "sentry"
  ELSE IF Contains(m, <<"-","o","n","-">>)
          \/ Contains(m, <<"o","b","s","e","r","v","e","r">>)
  THEN "observer"
  ELSE IF Contains(m, <<"s","e","e","d">>)
  THEN "seed"
  ELSE "unknown"

\* get_org(moniker): moniker.split("-")[0] when it holds a hyphen
get_org(moniker) ==
  IF \E i \in 1..Len(moniker) : moniker[i] = "-"
  THEN SubSeq(moniker, 1,
              (CHOOSE i \in 1..Len(moniker) :
                  /\ moniker[i] = "-"
                  /\ \A j \in 1..(i - 1) : moniker[j] # "-") - 1)
  ELSE moniker

\* mutant of PrivatePrefixes: the test of "172.2" is left out
PrivatePrefixesShort ==
  { <<"1","0",".">>,
    <<"1","7","2",".","1","6",".">>, <<"1","7","2",".","1","7",".">>,
    <<"1","7","2",".","1","8",".">>, <<"1","7","2",".","1","9",".">>,
    <<"1","7","2",".","3","0",".">>, <<"1","7","2",".","3","1",".">>,
    <<"1","9","2",".","1","6","8",".">>,
    <<"1","2","7",".">> }

\* is_private_ip(ip): the prefix tests, "172.2" (not "172.20." .. "172.29.")
\* among them
PrivatePrefixes ==
  { <<"1","0",".">>,
    <<"1","7","2",".","1","6",".">>, <<"1","7","2",".","1","7",".">>,
    <<"1","7","2",".","1","8",".">>, <<"1","7","2",".","1","9",".">>,
    <<"1","7","2",".","2">>,
    <<"1","7","2",".","3","0",".">>, <<"1","7","2",".","3","1",".">>,
    <<"1","9","2",".","1","6","8",".">>,
    <<"1","2","7",".">> }

StartsWith(s, pre) == Len(s) >= Len(pre) /\ SubSeq(s, 1, Len(pre)) = pre

is_private_ip(ip) == \E pre \in PrivatePrefixes : StartsWith(ip, pre)

----------------------------------------------------------------------------
(* Values *)

\* Python None, and what `if x:` accepts
None == "None"

Truthy(x) == x # None /\ x # ""

\* the same for a string kept as a tuple of characters ("" and None: <<>>)
TruthyStr(s) == s # <<>>

\* an RPC address: scheme://host:26657
Url(scheme, host) == [scheme |-> scheme, host |-> host, port |-> RpcPort]

\* f"http://{ip}:26657"
SynthUrl(ip) == Url("http", ip)

\* rpc_url.split("//")[1].split(":")[0] and the replace/split of the script
HostOf(url) == url.host

\* node identities, with the order Python's sorted() gives them
Ids == {"A", "B", "C", "D"}

IdRank ==
  [i \in Ids |-> CASE i = "A" -> 1 [] i = "B" -> 2 [] i = "C" -> 3
                    [] i = "D" -> 4]

\* mutant of EdgeKey: the key is not sorted
EdgeKeyUnsorted(a, b) == <<a, b>>

\* tuple(sorted([source_id, target_id]))
EdgeKey(a, b) == IF IdRank[a] <= IdRank[b] THEN <<a, b>> ELSE <<b, a>>

EmptyMap == [x \in {} |-> 0]

\* d[k] = v
Put(d, k, v) == [x \in DOMAIN d \cup {k} |-> IF x = k THEN v ELSE d[x]]

----------------------------------------------------------------------------
(* The network the crawler runs against: what each RPC address answers.    *)
(* A scenario fixes the seed list and the answers; `net` names it.         *)

HostA == <<"o","n",".","d","c","l">>
IpA == <<"8",".","0",".","0",".","1">>
IpB == <<"8",".","0",".","0",".","2">>
HostB == <<"s","n",".","d","c","l">>
IpC == <<"8",".","0",".","0",".","3">>
IpD == <<"8",".","0",".","0",".","4">>
IpX == <<"9",".","9",".","9",".","9">>
IpPriv == <<"1","0",".","0",".","0",".","9">>
IpPriv2 == <<"1","7","2",".","2","0",".","0",".","1">>
IpPub172 == <<"1","7","2",".","2","1","7",".","0",".","1">>

MonA == <<"C","S","A","-","O","N","-","0","1">>
MonB == <<"C","S","A","-","P","u","b","-","S","N","-","0","1">>
MonB2 == <<"c","s","a","-","s","e","n","t","r","y">>
MonC == <<"a","c","m","e","-","v","n","-","1">>
MonD == <<"s","o","l","o">>

Scenarios == {"tiny", "two_seeds", "shared_addr", "mutual", "selfloop",
              "grow", "reseed", "dup_seed", "public172",
              "bad_seed"}

Seed(url, moniker) == [url |-> url, moniker |-> moniker]

Peer(id, ip, moniker) ==
  [id |-> id, remote_ip |-> ip, moniker |-> moniker, version |-> "0.34"]

\* SEED_NODES
SeedNodes(sc) ==
  CASE sc = "two_seeds" -> << Seed(Url("https", HostA), MonA),
                              Seed(Url("http", IpB), MonB) >>
    [] sc = "reseed"    -> << Seed(Url("http", IpA), MonA),
                              Seed(Url("https", HostB), MonB) >>
    [] sc = "dup_seed"  -> << Seed(Url("https", HostA), MonA),
                              Seed(Url("http", IpA), MonA) >>
    [] sc = "bad_seed"  -> << Seed(Url("http", IpD), MonD),
                              Seed(Url("http", IpC), MonC),
                              Seed(Url("http", IpA), MonA) >>
    [] OTHER            -> << Seed(Url("http", IpA), MonA) >>

\* the identity that answers /status at an address; None: the call fails
StatusIdAt(sc, url) ==
  CASE url = Url("https", HostA) -> "A"
    [] url = Url("http", IpA)    -> "A"
    [] url = Url("https", HostB) -> "B"
    [] url = Url("http", IpB)    -> IF sc = "grow" THEN None ELSE "B"
    [] url = Url("http", IpC)    -> IF sc = "bad_seed" THEN None ELSE "C"
    [] url = Url("http", IpX)    -> "B"
    [] OTHER                     -> None

MonikerOfId(id) ==
  CASE id = "A" -> MonA [] id = "B" -> MonB2 [] id = "C" -> MonC
    [] OTHER -> MonD

\* the peers /net_info returns at an address; <<>> also when the call fails
PeersAt(sc, url) ==
  CASE sc = "tiny" /\ url = Url("http", IpA) ->
         << Peer("B", IpA, MonB2) >>
    [] sc = "two_seeds" /\ url \in {Url("https", HostA), Url("http", IpB)} ->
         << Peer("C", IpC, MonC) >>
    [] sc = "two_seeds" /\ url = Url("http", IpC) ->
         << Peer("A", IpA, MonA), Peer("B", IpB, MonB2) >>
    [] sc = "shared_addr" /\ url = Url("http", IpA) ->
         << Peer("B", IpX, MonB2), Peer("C", IpX, MonC) >>
    [] sc = "shared_addr" /\ url = Url("http", IpX) ->
         << Peer("A", IpA, MonA), Peer("D", IpD, MonD) >>
    [] sc = "mutual" /\ url = Url("http", IpA) ->
         << Peer("B", IpB, MonB2), Peer("C", IpC, MonC) >>
    [] sc = "mutual" /\ url = Url("http", IpB) ->
         << Peer("C", IpC, MonC) >>
    [] sc = "mutual" /\ url = Url("http", IpC) ->
         << Peer("B", IpB, MonB2) >>
    [] sc = "selfloop" /\ url = Url("http", IpA) ->
         << Peer("A", IpA, MonA), Peer(None, IpC, MonC),
            Peer("D", IpPriv, MonD), Peer("C", <<>>, MonC),
            Peer("D", IpPriv2, MonD), Peer("B", IpB, MonB2) >>
    [] sc = "grow" /\ url = Url("http", IpA) ->
         << Peer("B", IpB, MonB2), Peer("C", IpC, MonC) >>
    [] sc = "grow" /\ url = Url("http", IpB) ->
         << Peer("D", IpD, MonD) >>
    [] sc = "grow" /\ url = Url("http", IpC) ->
         << Peer("B", IpB, MonB2), Peer("A", IpA, MonA) >>
    [] sc = "reseed" /\ url = Url("http", IpA) ->
         << Peer("B", IpB, MonB2) >>
    [] sc = "reseed" /\ url \in {Url("https", HostB), Url("http", IpB)} ->
         << Peer("A", IpA, MonA) >>
    [] sc = "dup_seed" /\ url \in {Url("https", HostA), Url("http", IpA)} ->
         << Peer("B", IpB, MonB2) >>
    [] sc = "bad_seed" /\ url = Url("http", IpA) ->
         << Peer("B", IpB, MonB2) >>
    [] sc = "public172" /\ url = Url("http", IpA) ->
         << Peer("C", IpPub172, MonC), Peer("B", IpB, MonB2) >>
    [] OTHER -> << >>

\* query_net_info(rpc_url)
query_net_info(sc, url) == PeersAt(sc, url)

\* /status is answered at an address (in "bad_seed" the answer of the
\* second seed has no node_info.id)
StatusAnswers(sc, url) ==
  \/ StatusIdAt(sc, url) # None
  \/ sc = "bad_seed" /\ url = Url("http", IpC)

\* query_status(rpc_url): None on failure, else the four fields
query_status(sc, url) ==
  LET id == StatusIdAt(sc, url) IN
  IF ~StatusAnswers(sc, url)
  THEN [ok |-> FALSE, id |-> None, moniker |-> <<>>, version |-> None,
        height |-> None]
  ELSE [ok |-> TRUE, id |-> id, moniker |-> MonikerOfId(id),
        version |-> "0.34", height |-> "1000"]

\* query_abci_info(rpc_url): the application version, None on failure
\* (in "dup_seed" the second address of node A answers /status only)
query_abci_info(sc, url) ==
  IF sc = "dup_seed" /\ url = Url("http", IpA) THEN None
  ELSE IF StatusIdAt(sc, url) \in {"A", "C"} THEN "1.4"
  ELSE None

----------------------------------------------------------------------------
(* State *)

VARIABLES
  prog,           \* which program runs: "pn", "dp" or "edge"
  net,            \* the scenario (seed list and RPC answers)
  status,         \* network["status"]
  nodes,          \* network["nodes"] / discovered_peers : id -> record
  edges,          \* network["edges"] / edges : list of {source, target}
  discovery_log,  \* network["discovery_log"]
  stats,          \* network["stats"]
  visited_rpcs,   \* visited_rpcs
  edge_set,       \* edge_set
  gen,            \* which dict object network["nodes"] is bound to
  th,             \* threads: <<run, "main">> and <<run, peer_id>> -> locals
  startsLeft,     \* /api/start requests still to come
  resp,           \* the answer to the last /api/start request
  queried,        \* history: rpc_url -> number of query_net_info calls
  lastCall,       \* history: the last add_edge call of prog = "edge"
  http,           \* the server thread: its place in send_json(network)
  snap,           \* what the last GET /api/network returned
  arg,            \* the argument of the last call of a function run alone
  ret,            \* what that call returned
  pool            \* the executors of prog = "pool", one per run thread

\* the variables the crawl itself never writes
aux == << http, snap, arg, ret, pool >>

vars == << prog, net, status, nodes, edges, discovery_log, stats,
           visited_rpcs, edge_set, gen, th, startsLeft, resp, queried,
           lastCall, aux >>

\* the shared state of a run
runState == << status, nodes, edges, discovery_log, stats, visited_rpcs,
               edge_set >>

ZeroStats == [total_nodes |-> 0, total_edges |-> 0, accessible_rpc |-> 0]

NoUrl == Url("", <<>>)

\* the locals of a thread
Thread(pc) ==
  [pc |-> pc, i |-> 0, id |-> None, url |-> NoUrl, ip |-> <<>>,
   moniker |-> <<>>, version |-> None, dcl |-> None, height |-> None,
   peers |-> <<>>, n0 |-> 0, g0 |-> 0, front |-> {}, iter |-> 0]

Main(r) == <<r, "main">>

IsMain(t) == t[2] = "main"

Mains == {t \in DOMAIN th : IsMain(t)}

Workers(r) == {t \in DOMAIN th : t[1] = r /\ ~IsMain(t)}

\* the /api/start requests a scenario is run with
StartsFor(sc) == IF sc = "tiny" THEN MaxStarts ELSE 1

\* the /api/network requests a scenario is run with
ReadsFor(sc) == IF sc = "grow" THEN MaxReads ELSE 0

\* ThreadPoolExecutor(max_workers=m) before a batch of n tasks is submitted
Executor(m, n) ==
  [max_workers |-> m, todo |-> n, queued |-> 0, running |-> 0, done |-> 0]

\* the server thread between two requests
Idle(left) == [pc |-> "idle", left |-> left, n0 |-> 0, g0 |-> 0]

\* dict.items(): the pairs of a dict
Items(d) == { <<k, d[k]>> : k \in DOMAIN d }

\* no /api/network request has been answered
NoSnap == [taken |-> FALSE, ok |-> TRUE, nodes |-> {}, edges |-> << >>]

\* the answer send_json(network) writes: the registry serialized record by
\* record, and the edge list
Snapshot(N, E) == [taken |-> TRUE, ok |-> TRUE, nodes |-> Items(N), edges |-> E]

\* json.dumps raised: the handler ends without an answer
NoAnswer == [taken |-> TRUE, ok |-> FALSE, nodes |-> {}, edges |-> << >>]

Init ==
  /\ prog \in {"pn", "dp", "edge", "classify", "log", "pool"}
  /\ net \in (IF prog \in {"pn", "dp"} THEN Scenarios ELSE {"tiny"})
  /\ status = "idle"
  /\ nodes = EmptyMap
  /\ edges = << >>
  /\ discovery_log = << >>
  /\ stats = ZeroStats
  /\ visited_rpcs = {}
  /\ edge_set = {}
  /\ gen = 0
  /\ th = IF prog = "dp"
          THEN Put(EmptyMap, Main(1), [Thread("dp_seed") EXCEPT !.i = 1])
          ELSE EmptyMap
  /\ startsLeft = IF prog = "pn" THEN StartsFor(net) ELSE 0
  /\ resp = "none"
  /\ queried = EmptyMap
  /\ lastCall = << >>
  /\ http = Idle(IF prog = "pn" THEN ReadsFor(net) ELSE 0)
  /\ snap = NoSnap
  /\ arg = IF prog = "log" THEN <<"msg", 0>> ELSE << >>
  /\ ret = "none"
  /\ pool \in IF prog = "pool"
              THEN { << Executor(m, n) >> :
                       m \in {ExpansionWorkers, SweepWorkers},
                       n \in 1..MaxTasks }
                   \cup { << Executor(ExpansionWorkers, OverlapBatch),
                             Executor(ExpansionWorkers, OverlapBatch) >> }
              ELSE { << >> }

----------------------------------------------------------------------------
(* peer_network.py: the registry, the edge list and the log *)

\* mutant of log: a full log keeps what it has
log_keep_first(L, msg) == IF Len(L) >= LogMax THEN L ELSE Append(L, msg)

\* log(msg): append, keep the last 100; a message is <<run, text>>
log(L, msg) ==
  LET a == Append(L, msg) IN
  IF Len(a) > LogMax THEN SubSeq(a, Len(a) - LogMax + 1, Len(a)) ELSE a

\* the record add_node creates; `discovered` says whether the record has
\* the key "_discovered" (it is only ever set to True)
NewNode(peer_id, ip, moniker, version, rpc_accessible, dcl_version, height) ==
  [id |-> peer_id, ip |-> ip, port |-> P2PPort, moniker |-> moniker,
   tendermint_version |-> version, rpc_accessible |-> rpc_accessible,
   dcl_version |-> dcl_version, height |-> height,
   type |-> get_node_type(moniker), org |-> get_org(moniker),
   rpc_url |-> SynthUrl(ip), discovered |-> FALSE]

\* mutant of add_node: an existing record takes the flag of the call
add_node_overwrite(N, peer_id, ip, moniker, version, rpc_accessible, dcl_version, height) ==
  IF peer_id \notin DOMAIN N
  THEN Put(N, peer_id,
           NewNode(peer_id, ip, moniker, version, rpc_accessible,
                   dcl_version, height))
  ELSE [N EXCEPT ![peer_id].rpc_accessible = rpc_accessible]

\* mutant of add_node: a peer that has no record gets none
add_node_known_only(N, peer_id, ip, moniker, version, rpc_accessible, dcl_version, height) ==
  IF peer_id \notin DOMAIN N
  THEN N
  ELSE [N EXCEPT ![peer_id] =
          [@ EXCEPT
             !.rpc_accessible = IF rpc_accessible THEN TRUE ELSE @,
             !.dcl_version = IF Truthy(dcl_version) THEN dcl_version ELSE @,
             !.height = IF Truthy(height) THEN height ELSE @]]

\* add_node: network["nodes"] after the call
add_node(N, peer_id, ip, moniker, version, rpc_accessible, dcl_version, height) ==
  IF peer_id \notin DOMAIN N
  THEN Put(N, peer_id,
           NewNode(peer_id, ip, moniker, version, rpc_accessible,
                   dcl_version, height))
  ELSE [N EXCEPT ![peer_id] =
          [@ EXCEPT
             !.rpc_accessible = IF rpc_accessible THEN TRUE ELSE @,
             !.dcl_version = IF Truthy(dcl_version) THEN dcl_version ELSE @,
             !.height = IF Truthy(height) THEN height ELSE @]]

\* the dict an edge is
Edge(source_id, target_id) == [source |-> source_id, target |-> target_id]

\* mutant of add_edge_new: the key set is not consulted
add_edge_always(S, source_id, target_id) == TRUE

\* add_edge: is the edge appended
add_edge_new(S, source_id, target_id) == EdgeKey(source_id, target_id) \notin S

\* add_edge: edge_set after the call
add_edge_set(S, source_id, target_id) ==
  IF add_edge_new(S, source_id, target_id)
  THEN S \cup {EdgeKey(source_id, target_id)}
  ELSE S

\* add_edge: the edge list after the call
add_edge_list(E, S, source_id, target_id) ==
  IF add_edge_new(S, source_id, target_id)
  THEN Append(E, Edge(source_id, target_id))
  ELSE E

----------------------------------------------------------------------------
(* peer_network.py: RequestHandler.do_GET, path /api/start *)

\* mutant of StartAccepted: the status is not tested
StartAcceptedAlways(st) == TRUE

\* the test of line 298
StartAccepted(st) == st # "discovering"

do_GET_start ==
  /\ prog = "pn"
  /\ http.pc = "idle"
  /\ startsLeft > 0
  /\ startsLeft' = startsLeft - 1
  /\ IF StartAccepted(status)
     THEN /\ th' = Put(th, Main(Cardinality(Mains) + 1), Thread("reset"))
          /\ resp' = "started"
     ELSE /\ th' = th
          /\ resp' = "already_running"
  /\ UNCHANGED << prog, net, runState, gen, queried, lastCall, aux >>

----------------------------------------------------------------------------
(* peer_network.py: RequestHandler.do_GET, path /api/network. send_json    *)
(* serializes the shared `network` dict without taking the lock. What can  *)
(* happen meanwhile depends on the encoder json.dumps uses: the C encoder  *)
(* (_json.c_make_encoder) is one call that keeps the interpreter lock; the *)
(* Python encoder (json.encoder._make_iterencode, used when _json is not   *)
(* there) iterates the dict in bytecode, where threads are switched.       *)

\* send_json(network) with the C encoder: one step
do_GET_network ==
  /\ prog = "pn"
  /\ http.pc = "idle" /\ http.left > 0
  /\ http' = Idle(http.left - 1)
  /\ snap' = Snapshot(nodes, edges)
  /\ UNCHANGED << prog, net, runState, gen, th, startsLeft, resp, queried,
                  lastCall, arg, ret, pool >>

\* send_json(network) with the Python encoder: the iteration of
\* network["nodes"] begins
do_GET_network_iter ==
  /\ prog = "pn"
  /\ http.pc = "idle" /\ http.left > 0
  /\ http' = [pc |-> "encode", left |-> http.left - 1,
              n0 |-> Cardinality(DOMAIN nodes), g0 |-> gen]
  /\ UNCHANGED << prog, net, runState, gen, th, startsLeft, resp, queried,
                  lastCall, snap, arg, ret, pool >>

\* the dict iterator raises RuntimeError when the dict has changed size; an
\* empty dict is written as {} without an iteration
EncodeRaises ==
  http.n0 > 0 /\ gen = http.g0 /\ Cardinality(DOMAIN nodes) # http.n0

\* the end of the iteration: the answer, or the RuntimeError
send_json_end ==
  /\ prog = "pn"
  /\ http.pc = "encode"
  /\ http' = Idle(http.left)
  /\ snap' = IF EncodeRaises THEN NoAnswer ELSE Snapshot(nodes, edges)
  /\ UNCHANGED << prog, net, runState, gen, th, startsLeft, resp, queried,
                  lastCall, arg, ret, pool >>

----------------------------------------------------------------------------
(* peer_network.py: start_discovery, one thread per accepted start *)

At(t, pc) == t \in DOMAIN th /\ th[t].pc = pc

\* the first block of start_discovery, under the lock
ResetRun(t) ==
  /\ prog = "pn" /\ IsMain(t) /\ At(t, "reset")
  /\ status' = "discovering"
  /\ nodes' = EmptyMap
  /\ edges' = << >>
  /\ discovery_log' = << >>
  /\ stats' = ZeroStats
  /\ visited_rpcs' = {}
  /\ edge_set' = {}
  /\ gen' = gen + 1
  /\ queried' = EmptyMap
  /\ th' = [th EXCEPT ![t].pc = "log_start"]
  /\ UNCHANGED << prog, net, startsLeft, resp, lastCall, aux >>

\* log("Starting peer discovery...")
LogStart(t) ==
  /\ prog = "pn" /\ IsMain(t) /\ At(t, "log_start")
  /\ discovery_log' = log(discovery_log, <<t[1], "starting">>)
  /\ th' = [th EXCEPT ![t].pc = "seed_log", ![t].i = 1]
  /\ UNCHANGED << prog, net, status, nodes, edges, stats, visited_rpcs,
                  edge_set, gen, startsLeft, resp, queried, lastCall, aux >>

\* mutant of SeedUsable: the answer of the status query is not tested
SeedUsableAlways(st) == TRUE

\* `if status:` and `if seed_id:` (`if status and status.get("id")`)
SeedUsable(st) == st.ok /\ Truthy(st.id)

\* where the seed loop goes after seed i
AfterSeed(T) ==
  IF T.i < Len(SeedNodes(net))
  THEN [T EXCEPT !.pc = "seed_log", !.i = T.i + 1]
  ELSE [T EXCEPT !.pc = "log_found"]

\* log("Querying seed"), query_status and query_abci_info of seed i
SeedQuery(t) ==
  /\ prog = "pn" /\ IsMain(t) /\ At(t, "seed_log")
  /\ discovery_log' = log(discovery_log, <<t[1], "querying seed">>)
  /\ LET T == th[t]
         seed == SeedNodes(net)[T.i]
         st == query_status(net, seed.url)
     IN th' = [th EXCEPT ![t] =
                 IF SeedUsable(st)
                 THEN [T EXCEPT !.pc = "seed_add", !.id = st.id,
                                !.url = seed.url, !.ip = HostOf(seed.url),
                                !.moniker = seed.moniker,
                                !.version = st.version,
                                !.dcl = query_abci_info(net, seed.url),
                                !.height = st.height]
                 ELSE AfterSeed(T)]
  /\ UNCHANGED << prog, net, status, nodes, edges, stats, visited_rpcs,
                  edge_set, gen, startsLeft, resp, queried, lastCall, aux >>

\* stats["total_nodes"] = len(nodes), only when add_node created the record
StatsAfterAddNode(N, peer_id) ==
  IF peer_id \notin DOMAIN N
  THEN [stats EXCEPT !.total_nodes = Cardinality(DOMAIN N) + 1]
  ELSE stats

\* add_node of the seed (rpc_accessible=True)
SeedAdd(t) ==
  /\ prog = "pn" /\ IsMain(t) /\ At(t, "seed_add")
  /\ LET T == th[t] IN
       /\ nodes' = add_node(nodes, T.id, T.ip, T.moniker, T.version, TRUE,
                            T.dcl, T.height)
       /\ stats' = StatsAfterAddNode(nodes, T.id)
  /\ th' = [th EXCEPT ![t].pc = "chk"]
  /\ UNCHANGED << prog, net, status, edges, discovery_log, visited_rpcs,
                  edge_set, gen, startsLeft, resp, queried, lastCall, aux >>

\* network["nodes"][seed_id]["_discovered"] = True, no lock; KeyError when
\* the record is gone
SeedMark(t) ==
  /\ prog = "pn" /\ IsMain(t) /\ At(t, "seed_mark")
  /\ LET T == th[t] IN
       IF T.id \in DOMAIN nodes
       THEN /\ nodes' = [nodes EXCEPT ![T.id].discovered = TRUE]
            /\ th' = [th EXCEPT ![t] = AfterSeed(T)]
       ELSE /\ nodes' = nodes
            /\ th' = [th EXCEPT ![t].pc = "dead"]
  /\ UNCHANGED << prog, net, status, edges, discovery_log, stats,
                  visited_rpcs, edge_set, gen, startsLeft, resp, queried,
                  lastCall, aux >>

\* log("Found n peers from seeds")
LogFound(t) ==
  /\ prog = "pn" /\ IsMain(t) /\ At(t, "log_found")
  /\ discovery_log' = log(discovery_log, <<t[1], "found">>)
  /\ th' = [th EXCEPT ![t].pc = "frontier"]
  /\ UNCHANGED << prog, net, status, nodes, edges, stats, visited_rpcs,
                  edge_set, gen, startsLeft, resp, queried, lastCall, aux >>

\* iteration += 1 (the counter saturates: the loop itself is not bounded)
NextIter(n) == IF n < IterCap THEN n + 1 ELSE n

\* peers_to_crawl, computed under the lock
peers_to_crawl ==
  {pid \in DOMAIN nodes :
     ~nodes[pid].discovered /\ nodes[pid].rpc_url \notin visited_rpcs}

Frontier(t) ==
  /\ prog = "pn" /\ IsMain(t) /\ At(t, "frontier")
  /\ th' = [th EXCEPT ![t] =
              IF peers_to_crawl = {}
              THEN [@ EXCEPT !.pc = "complete", !.front = {}]
              ELSE [@ EXCEPT !.pc = "log_crawl", !.front = peers_to_crawl,
                             !.iter = NextIter(@)]]
  /\ UNCHANGED << prog, net, runState, gen, startsLeft, resp, queried,
                  lastCall, aux >>

\* log("Crawling n new peers..."), then executor.submit for each of them
Dispatch(t) ==
  /\ prog = "pn" /\ IsMain(t) /\ At(t, "log_crawl")
  /\ discovery_log' = log(discovery_log, <<t[1], "crawling new peers">>)
  /\ th' = [x \in DOMAIN th \cup {<<t[1], pid>> : pid \in th[t].front} |->
              IF x = t THEN [th[t] EXCEPT !.pc = "wait"]
              ELSE IF x \in DOMAIN th THEN th[x]
              ELSE [Thread("get") EXCEPT !.id = x[2]]]
  /\ UNCHANGED << prog, net, status, nodes, edges, stats, visited_rpcs,
                  edge_set, gen, startsLeft, resp, queried, lastCall, aux >>

\* mutant of Finished: the pool is left without waiting for its tasks
FinishedAlways(w) == TRUE

\* the future of a task is done: the task has returned or raised
Finished(w) == th[w].pc \in {"end", "exc"}

\* the tasks of run r that have returned or raised
Ended(r) == {w \in Workers(r) : th[w].pc \in {"end", "exc"}}

\* as_completed(futures) and the exit of the `with` block: every task of the
\* batch has returned or raised
Barrier(t) ==
  /\ prog = "pn" /\ IsMain(t) /\ At(t, "wait")
  /\ \A w \in Workers(t[1]) : Finished(w)
  /\ th' = [x \in DOMAIN th \ Ended(t[1]) |->
              IF x = t THEN [th[t] EXCEPT !.pc = "frontier", !.front = {}]
              ELSE th[x]]
  /\ UNCHANGED << prog, net, runState, gen, startsLeft, resp, queried,
                  lastCall, aux >>

\* network["status"] = "complete", under the lock
Complete(t) ==
  /\ prog = "pn" /\ IsMain(t) /\ At(t, "complete")
  /\ status' = "complete"
  /\ th' = [th EXCEPT ![t].pc = "log_done"]
  /\ UNCHANGED << prog, net, nodes, edges, discovery_log, stats,
                  visited_rpcs, edge_set, gen, startsLeft, resp, queried,
                  lastCall, aux >>

\* log("Discovery complete. ...")
LogDone(t) ==
  /\ prog = "pn" /\ IsMain(t) /\ At(t, "log_done")
  /\ discovery_log' = log(discovery_log, <<t[1], "complete">>)
  /\ th' = [th EXCEPT ![t].pc = "done"]
  /\ UNCHANGED << prog, net, status, nodes, edges, stats, visited_rpcs,
                  edge_set, gen, startsLeft, resp, queried, lastCall, aux >>

----------------------------------------------------------------------------
(* peer_network.py: crawl_worker, one task per member of peers_to_crawl *)

\* peer_info = network["nodes"].get(peer_id), no lock; return when absent
WorkerGet(t) ==
  /\ prog = "pn" /\ ~IsMain(t) /\ At(t, "get")
  /\ LET T == th[t] IN
       th' = [th EXCEPT ![t] =
                IF T.id \in DOMAIN nodes
                THEN [T EXCEPT !.pc = "log",
                               !.url = nodes[T.id].rpc_url,
                               !.ip = nodes[T.id].ip,
                               !.moniker = nodes[T.id].moniker,
                               !.version = nodes[T.id].tendermint_version]
                ELSE [T EXCEPT !.pc = "end"]]
  /\ UNCHANGED << prog, net, runState, gen, startsLeft, resp, queried,
                  lastCall, aux >>

\* log("Crawling ..."), then query_status and, on success, query_abci_info
WorkerQuery(t) ==
  /\ prog = "pn" /\ ~IsMain(t) /\ At(t, "log")
  /\ discovery_log' = log(discovery_log, <<t[1], "crawling">>)
  /\ LET T == th[t]
         st == query_status(net, T.url)
     IN th' = [th EXCEPT ![t] =
                 IF st.ok
                 THEN [T EXCEPT !.pc = "upd",
                                !.dcl = query_abci_info(net, T.url),
                                !.height = st.height]
                 ELSE [T EXCEPT !.pc = "chk"]]
  /\ UNCHANGED << prog, net, status, nodes, edges, stats, visited_rpcs,
                  edge_set, gen, startsLeft, resp, queried, lastCall, aux >>

\* add_node(..., rpc_accessible=True, dcl_version, height)
WorkerUpdate(t) ==
  /\ prog = "pn" /\ ~IsMain(t) /\ At(t, "upd")
  /\ LET T == th[t] IN
       /\ nodes' = add_node(nodes, T.id, T.ip, T.moniker, T.version, TRUE,
                            T.dcl, T.height)
       /\ stats' = StatsAfterAddNode(nodes, T.id)
  /\ th' = [th EXCEPT ![t].pc = "stat"]
  /\ UNCHANGED << prog, net, status, edges, discovery_log, visited_rpcs,
                  edge_set, gen, startsLeft, resp, queried, lastCall, aux >>

\* sum(1 for n in nodes.values() if n.get("rpc_accessible"))
AccessibleCount(N) == Cardinality({id \in DOMAIN N : N[id].rpc_accessible})

\* stats["accessible_rpc"] recomputed under the lock
WorkerStats(t) ==
  /\ prog = "pn" /\ ~IsMain(t) /\ At(t, "stat")
  /\ stats' = [stats EXCEPT !.accessible_rpc = AccessibleCount(nodes)]
  /\ th' = [th EXCEPT ![t].pc = "chk"]
  /\ UNCHANGED << prog, net, status, nodes, edges, discovery_log,
                  visited_rpcs, edge_set, gen, startsLeft, resp, queried,
                  lastCall, aux >>

\* network["nodes"][peer_id]["_discovered"] = True under the lock; KeyError
\* when the record is gone
WorkerMark(t) ==
  /\ prog = "pn" /\ ~IsMain(t) /\ At(t, "disc")
  /\ LET T == th[t] IN
       IF T.id \in DOMAIN nodes
       THEN /\ nodes' = [nodes EXCEPT ![T.id].discovered = TRUE]
            /\ th' = [th EXCEPT ![t].pc = "end"]
       ELSE /\ nodes' = nodes
            /\ th' = [th EXCEPT ![t].pc = "exc"]
  /\ UNCHANGED << prog, net, status, edges, discovery_log, stats,
                  visited_rpcs, edge_set, gen, startsLeft, resp, queried,
                  lastCall, aux >>

----------------------------------------------------------------------------
(* peer_network.py: discover_from_node(source_id, rpc_url), called by      *)
(* start_discovery for a seed and by crawl_worker for a peer               *)

\* mutant of Skipped: identity and address are not tested
SkippedPrivateOnly(peer) == is_private_ip(peer.remote_ip)

\* `if not peer_id or not remote_ip: continue` and the private-address test
Skipped(peer) ==
  \/ ~Truthy(peer.id)
  \/ ~TruthyStr(peer.remote_ip)
  \/ is_private_ip(peer.remote_ip)

RECURSIVE SkipToNext(_)
\* the rest of the peer list from the next entry the loop body handles
SkipToNext(ps) ==
  IF ps = << >> THEN << >>
  ELSE IF Skipped(Head(ps)) THEN SkipToNext(Tail(ps))
  ELSE ps

\* where a thread continues when discover_from_node returns, or raises
Return(t) == IF IsMain(t) THEN "seed_mark" ELSE "disc"

Raise(t) == IF IsMain(t) THEN "dead" ELSE "exc"

\* one more query_net_info call at url
Count(q, url) == Put(q, url, IF url \in DOMAIN q THEN q[url] + 1 ELSE 1)

\* `if rpc_url in visited_rpcs: return []`, no lock
VisitedTest(V, url) == url \in V

DiscoverCheck(t) ==
  /\ prog = "pn" /\ At(t, "chk")
  /\ th' = [th EXCEPT ![t].pc =
              IF VisitedTest(visited_rpcs, th[t].url) THEN Return(t)
              ELSE "mark"]
  /\ UNCHANGED << prog, net, runState, gen, startsLeft, resp, queried,
                  lastCall, aux >>

\* visited_rpcs.add(rpc_url), then peers = query_net_info(rpc_url)
DiscoverVisit(t) ==
  /\ prog = "pn" /\ At(t, "mark")
  /\ visited_rpcs' = visited_rpcs \cup {th[t].url}
  /\ queried' = Count(queried, th[t].url)
  /\ LET ps == SkipToNext(query_net_info(net, th[t].url)) IN
       th' = [th EXCEPT ![t].peers = ps,
                        ![t].pc = IF ps = << >> THEN Return(t) ELSE "node"]
  /\ UNCHANGED << prog, net, status, nodes, edges, discovery_log, stats,
                  edge_set, gen, startsLeft, resp, lastCall, aux >>

\* add_node of the peer (rpc_accessible=False, no dcl_version, no height)
DiscoverAddNode(t) ==
  /\ prog = "pn" /\ At(t, "node")
  /\ LET T == th[t]
         peer == Head(T.peers)
     IN /\ nodes' = add_node(nodes, peer.id, peer.remote_ip, peer.moniker,
                             peer.version, FALSE, None, None)
        /\ stats' = StatsAfterAddNode(nodes, peer.id)
        /\ th' = [th EXCEPT ![t].pc = IF Truthy(T.id) THEN "edge" ELSE "scan"]
  /\ UNCHANGED << prog, net, status, edges, discovery_log, visited_rpcs,
                  edge_set, gen, startsLeft, resp, queried, lastCall, aux >>

\* add_edge(source_id, peer_id), under the lock
DiscoverAddEdge(t) ==
  /\ prog = "pn" /\ At(t, "edge")
  /\ LET T == th[t]
         peer == Head(T.peers)
     IN /\ edges' = add_edge_list(edges, edge_set, T.id, peer.id)
        /\ edge_set' = add_edge_set(edge_set, T.id, peer.id)
        /\ stats' = [stats EXCEPT !.total_edges =
                       IF add_edge_new(edge_set, T.id, peer.id)
                       THEN Len(edges) + 1 ELSE @]
  /\ th' = [th EXCEPT ![t].pc = "scan"]
  /\ UNCHANGED << prog, net, status, nodes, discovery_log, visited_rpcs,
                  gen, startsLeft, resp, queried, lastCall, aux >>

\* line 191: the comprehension starts to iterate network["nodes"], no lock
DiscoverScanBegin(t) ==
  /\ prog = "pn" /\ At(t, "scan")
  /\ th' = [th EXCEPT ![t].pc = "scan2",
                      ![t].n0 = Cardinality(DOMAIN nodes),
                      ![t].g0 = gen]
  /\ UNCHANGED << prog, net, runState, gen, startsLeft, resp, queried,
                  lastCall, aux >>

\* the dict iterator raises RuntimeError when the dict it iterates has
\* changed size; a dict that start_discovery has replaced no longer changes
ScanRaises(T) == gen = T.g0 /\ Cardinality(DOMAIN nodes) # T.n0

\* line 191: the end of the iteration, then the next entry of the peer list
DiscoverScanEnd(t) ==
  /\ prog = "pn" /\ At(t, "scan2")
  /\ LET T == th[t]
         ps == SkipToNext(Tail(T.peers))
     IN th' = [th EXCEPT ![t] =
                 IF ScanRaises(T) THEN [T EXCEPT !.pc = Raise(t)]
                 ELSE [T EXCEPT !.peers = ps,
                                !.pc = IF ps = << >> THEN Return(t)
                                       ELSE "node"]]
  /\ UNCHANGED << prog, net, runState, gen, startsLeft, resp, queried,
                  lastCall, aux >>

----------------------------------------------------------------------------
(* discover_peers.py: the script. One main thread; the pool tasks are      *)
(* discover_from_node calls, with no lock anywhere.                        *)

\* the record discover_from_node stores for a peer it has not seen
DPPeerNode(peer) ==
  [NewNode(peer.id, peer.remote_ip, peer.moniker, peer.version, FALSE, None,
           None) EXCEPT !.rpc_url = SynthUrl(peer.remote_ip)]

\* the record crawl_network stores for a seed: rpc_url is the seed address
DPSeedNode(seed, st) ==
  [NewNode(st.id, HostOf(seed.url), st.moniker, st.version, TRUE,
           query_abci_info(net, seed.url), st.height)
     EXCEPT !.rpc_url = seed.url]

\* discovered_peers[seed_id] = {...}: stored whether or not the id is known
DPStoreSeed(N, seed, st) == Put(N, st.id, DPSeedNode(seed, st))

\* `if peer_id not in discovered_peers`
DPIsNew(N, peer) == peer.id \notin DOMAIN N

\* where the main thread goes after seed i
DPAfterSeed(T) ==
  IF T.i < Len(SeedNodes(net))
  THEN [T EXCEPT !.pc = "dp_seed", !.i = T.i + 1]
  ELSE [T EXCEPT !.pc = "dp_frontier"]

\* one seed of crawl_network: query_status, query_abci_info and the record,
\* then the call of discover_from_node(seed_id, seed). No other thread runs
\* during the seed phase.
DPSeed(t) ==
  /\ prog = "dp" /\ IsMain(t) /\ At(t, "dp_seed")
  /\ LET T == th[t]
         seed == SeedNodes(net)[T.i]
         st == query_status(net, seed.url)
     IN IF SeedUsable(st)
        THEN /\ nodes' = DPStoreSeed(nodes, seed, st)
             /\ th' = [th EXCEPT ![t] =
                         [T EXCEPT !.pc = "dchk", !.id = st.id,
                                   !.url = seed.url]]
        ELSE /\ nodes' = nodes
             /\ th' = [th EXCEPT ![t] = DPAfterSeed(T)]
  /\ UNCHANGED << prog, net, status, edges, discovery_log, stats,
                  visited_rpcs, edge_set, gen, startsLeft, resp, queried,
                  lastCall, aux >>

\* mutant of peers_to_query: the visit set is not consulted
peers_to_query_all == DOMAIN nodes

\* peers_to_query
peers_to_query == {pid \in DOMAIN nodes : nodes[pid].rpc_url \notin visited_rpcs}

\* the head of the crawl loop: break, or submit one task per frontier member
DPFrontier(t) ==
  /\ prog = "dp" /\ IsMain(t) /\ At(t, "dp_frontier")
  /\ th' = IF peers_to_query = {}
           THEN [th EXCEPT ![t].pc = "dp_sweep"]
           ELSE [x \in DOMAIN th \cup {<<t[1], pid>> : pid \in peers_to_query}
                   |-> IF x = t
                       THEN [th[t] EXCEPT !.pc = "dp_wait",
                                          !.iter = NextIter(@)]
                       ELSE [Thread("dchk") EXCEPT
                               !.id = x[2], !.url = nodes[x[2]].rpc_url]]
  /\ UNCHANGED << prog, net, runState, gen, startsLeft, resp, queried,
                  lastCall, aux >>

\* the exit of the `with` block of the crawl loop
DPBarrier(t) ==
  /\ prog = "dp" /\ IsMain(t) /\ At(t, "dp_wait")
  /\ \A w \in Workers(t[1]) : Finished(w)
  /\ th' = [x \in DOMAIN th \ Ended(t[1]) |->
              IF x = t THEN [th[t] EXCEPT !.pc = "dp_frontier"] ELSE th[x]]
  /\ UNCHANGED << prog, net, runState, gen, startsLeft, resp, queried,
                  lastCall, aux >>

\* the locals of a thread when discover_from_node returns: the seed loop
\* goes on, a pool task ends
DPReturn(t, T) ==
  IF IsMain(t) THEN DPAfterSeed([T EXCEPT !.peers = << >>])
  ELSE [T EXCEPT !.pc = "end", !.peers = << >>]

\* the locals of a thread at the next entry the loop body handles, ps being
\* the rest of the peer list
DPAtPeers(t, T, ps) ==
  IF SkipToNext(ps) = << >> THEN DPReturn(t, T)
  ELSE [T EXCEPT !.pc = "dhas", !.peers = SkipToNext(ps)]

\* `if rpc_url in visited_rpcs: return []`
DPCheck(t) ==
  /\ prog = "dp" /\ At(t, "dchk")
  /\ th' = [th EXCEPT ![t] =
              IF VisitedTest(visited_rpcs, th[t].url) THEN DPReturn(t, @)
              ELSE [@ EXCEPT !.pc = "dmark"]]
  /\ UNCHANGED << prog, net, runState, gen, startsLeft, resp, queried,
                  lastCall, aux >>

\* visited_rpcs.add(rpc_url), then peers = query_net_info(rpc_url)
DPVisit(t) ==
  /\ prog = "dp" /\ At(t, "dmark")
  /\ visited_rpcs' = visited_rpcs \cup {th[t].url}
  /\ queried' = Count(queried, th[t].url)
  /\ th' = [th EXCEPT ![t] =
              DPAtPeers(t, @, query_net_info(net, th[t].url))]
  /\ UNCHANGED << prog, net, status, nodes, edges, discovery_log, stats,
                  edge_set, gen, startsLeft, resp, lastCall, aux >>

\* the locals of a thread after the node part of the loop body:
\* `if source_id:` leads to add_edge
DPAfterNode(t, T) ==
  IF Truthy(T.id) THEN [T EXCEPT !.pc = "dechk"]
  ELSE DPAtPeers(t, T, Tail(T.peers))

\* `if peer_id not in discovered_peers:`
DPHas(t) ==
  /\ prog = "dp" /\ At(t, "dhas")
  /\ LET T == th[t] IN
       th' = [th EXCEPT ![t] =
                IF DPIsNew(nodes, Head(T.peers))
                THEN [T EXCEPT !.pc = "dput"]
                ELSE DPAfterNode(t, T)]
  /\ UNCHANGED << prog, net, runState, gen, startsLeft, resp, queried,
                  lastCall, aux >>

\* discovered_peers[peer_id] = {...}
DPPut(t) ==
  /\ prog = "dp" /\ At(t, "dput")
  /\ LET T == th[t] IN
       /\ nodes' = Put(nodes, Head(T.peers).id, DPPeerNode(Head(T.peers)))
       /\ th' = [th EXCEPT ![t] = DPAfterNode(t, T)]
  /\ UNCHANGED << prog, net, status, edges, discovery_log, stats,
                  visited_rpcs, edge_set, gen, startsLeft, resp, queried,
                  lastCall, aux >>

\* add_edge: `if edge_key not in edge_set:`
DPEdgeCheck(t) ==
  /\ prog = "dp" /\ At(t, "dechk")
  /\ LET T == th[t] IN
       th' = [th EXCEPT ![t] =
                IF add_edge_new(edge_set, T.id, Head(T.peers).id)
                THEN [T EXCEPT !.pc = "deadd"]
                ELSE DPAtPeers(t, T, Tail(T.peers))]
  /\ UNCHANGED << prog, net, runState, gen, startsLeft, resp, queried,
                  lastCall, aux >>

\* add_edge: edge_set.add(edge_key); edges.append(...). No thread reads
\* `edges` before the batch has ended, so the two writes are one step.
DPEdgeAppend(t) ==
  /\ prog = "dp" /\ At(t, "deadd")
  /\ LET T == th[t]
         peer == Head(T.peers)
     IN /\ edge_set' = edge_set \cup {EdgeKey(T.id, peer.id)}
        /\ edges' = Append(edges, Edge(T.id, peer.id))
        /\ th' = [th EXCEPT ![t] = DPAtPeers(t, T, Tail(T.peers))]
  /\ UNCHANGED << prog, net, status, nodes, discovery_log, stats,
                  visited_rpcs, gen, startsLeft, resp, queried, lastCall, aux >>

\* check_rpc_accessibility: one check_peer task per record
DPSweepStart(t) ==
  /\ prog = "dp" /\ IsMain(t) /\ At(t, "dp_sweep")
  /\ th' = [x \in DOMAIN th \cup {<<t[1], pid>> : pid \in DOMAIN nodes} |->
              IF x = t THEN [th[t] EXCEPT !.pc = "dp_sweep_wait"]
              ELSE [Thread("check") EXCEPT !.id = x[2]]]
  /\ UNCHANGED << prog, net, runState, gen, startsLeft, resp, queried,
                  lastCall, aux >>

\* what check_peer leaves in the record it is given
check_peer(peer_info) ==
  IF peer_info.rpc_accessible THEN peer_info
  ELSE LET st == query_status(net, peer_info.rpc_url) IN
       IF st.ok
       THEN [peer_info EXCEPT
               !.rpc_accessible = TRUE,
               !.dcl_version = query_abci_info(net, peer_info.rpc_url),
               !.height = st.height]
       ELSE peer_info

\* check_peer(pid, pinfo): it reads and writes its own record only
DPCheckPeer(t) ==
  /\ prog = "dp" /\ ~IsMain(t) /\ At(t, "check")
  /\ nodes' = [nodes EXCEPT ![th[t].id] = check_peer(@)]
  /\ th' = [th EXCEPT ![t].pc = "end"]
  /\ UNCHANGED << prog, net, status, edges, discovery_log, stats,
                  visited_rpcs, edge_set, gen, startsLeft, resp, queried,
                  lastCall, aux >>

\* the exit of the `with` block of check_rpc_accessibility
DPSweepEnd(t) ==
  /\ prog = "dp" /\ IsMain(t) /\ At(t, "dp_sweep_wait")
  /\ \A w \in Workers(t[1]) : Finished(w)
  /\ th' = [x \in DOMAIN th \ Ended(t[1]) |->
              IF x = t THEN [th[t] EXCEPT !.pc = "dp_done"] ELSE th[x]]
  /\ UNCHANGED << prog, net, runState, gen, startsLeft, resp, queried,
                  lastCall, aux >>

\* print_results: json.dump of discovered_peers and edges to network.json
DPExport(t) ==
  /\ prog = "dp" /\ IsMain(t) /\ At(t, "dp_done")
  /\ snap' = Snapshot(nodes, edges)
  /\ th' = [th EXCEPT ![t].pc = "dp_exported"]
  /\ UNCHANGED << prog, net, runState, gen, startsLeft, resp, queried,
                  lastCall, http, arg, ret, pool >>

----------------------------------------------------------------------------
(* add_edge called on its own, one call after the other *)

EdgeArgs == {"A", "B", "C"}

EdgeCall ==
  /\ prog = "edge"
  /\ Len(lastCall) < MaxEdgeCalls
  /\ \E a \in EdgeArgs, b \in EdgeArgs :
       /\ edges' = add_edge_list(edges, edge_set, a, b)
       /\ edge_set' = add_edge_set(edge_set, a, b)
       /\ stats' = [stats EXCEPT !.total_edges =
                      IF add_edge_new(edge_set, a, b)
                      THEN Len(edges) + 1 ELSE @]
       /\ lastCall' = Append(lastCall, <<a, b>>)
  /\ UNCHANGED << prog, net, status, nodes, discovery_log, visited_rpcs,
                  gen, th, startsLeft, resp, queried, aux >>

----------------------------------------------------------------------------
(* get_node_type called on its own *)

Names ==
  { <<"c","s","a","-","v","n","-","0","1">>,
    <<"c","s","a","-","s","n","-","0","2">>,
    <<"x","y","z","-","o","b","s","e","r","v","e","r">>,
    <<"p","u","b","l","i","c","-","s","e","e","d","-","1">>,
    <<"r","a","n","d","o","m">>,
    <<"S","e","n","t","r","y","-","V","N">>,
    <<"s","e","e","d","-","o","n","-","1">>,
    <<"o","b","s","e","r","v","e","r","-","s","n","-","1">>,
    <<"s","e","e","d","-","s","e","n","t","r","y">>,
    <<"a","-","v","n","-","s","e","e","d","-","o","n","-","s","n","-">>,
    <<"v","n">>, << >> }

ClassifyCall ==
  /\ prog = "classify"
  /\ \E m \in Names :
       /\ arg' = m
       /\ ret' = get_node_type(m)
  /\ UNCHANGED << prog, net, runState, gen, th, startsLeft, resp, queried,
                  lastCall, http, snap, pool >>

----------------------------------------------------------------------------
(* log called on its own: the calls are serialized by the lock, message k  *)
(* is the k-th one appended                                                *)

LogCall ==
  /\ prog = "log"
  /\ arg[2] < MaxLogCalls
  /\ arg' = <<"msg", arg[2] + 1>>
  /\ discovery_log' = log(discovery_log, arg')
  /\ UNCHANGED << prog, net, status, nodes, edges, stats, visited_rpcs,
                  edge_set, gen, th, startsLeft, resp, queried, lastCall,
                  http, snap, ret, pool >>

----------------------------------------------------------------------------
(* `with ThreadPoolExecutor(max_workers=n) as executor:` with one submit   *)
(* per member of the batch. The executor starts a thread for a submitted   *)
(* task while it has fewer than max_workers threads; a thread runs one     *)
(* task at a time and takes the next from the queue.                       *)

\* a worker thread is free, or can be started
PoolHasRoom(p) == p.running < p.max_workers

\* executor.submit(task)
PoolSubmit ==
  /\ prog = "pool"
  /\ \E i \in 1..Len(pool) :
       /\ pool[i].todo > 0
       /\ pool' = [pool EXCEPT ![i].todo = @ - 1, ![i].queued = @ + 1]
  /\ UNCHANGED << prog, net, runState, gen, th, startsLeft, resp, queried,
                  lastCall, http, snap, arg, ret >>

\* a worker thread takes a task from the queue of its executor
PoolStart ==
  /\ prog = "pool"
  /\ \E i \in 1..Len(pool) :
       /\ pool[i].queued > 0
       /\ PoolHasRoom(pool[i])
       /\ pool' = [pool EXCEPT ![i].queued = @ - 1, ![i].running = @ + 1]
  /\ UNCHANGED << prog, net, runState, gen, th, startsLeft, resp, queried,
                  lastCall, http, snap, arg, ret >>

\* a task returns or raises
PoolFinish ==
  /\ prog = "pool"
  /\ \E i \in 1..Len(pool) :
       /\ pool[i].running > 0
       /\ pool' = [pool EXCEPT ![i].running = @ - 1, ![i].done = @ + 1]
  /\ UNCHANGED << prog, net, runState, gen, th, startsLeft, resp, queried,
                  lastCall, http, snap, arg, ret >>

----------------------------------------------------------------------------
\* every step a thread can take
ThreadStep(t) ==
  \/ ResetRun(t)
  \/ LogStart(t)
  \/ SeedQuery(t)
  \/ SeedAdd(t)
  \/ SeedMark(t)
  \/ LogFound(t)
  \/ Frontier(t)
  \/ Dispatch(t)
  \/ Barrier(t)
  \/ Complete(t)
  \/ LogDone(t)
  \/ WorkerGet(t)
  \/ WorkerQuery(t)
  \/ WorkerUpdate(t)
  \/ WorkerStats(t)
  \/ WorkerMark(t)
  \/ DiscoverCheck(t)
  \/ DiscoverVisit(t)
  \/ DiscoverAddNode(t)
  \/ DiscoverAddEdge(t)
  \/ DiscoverScanBegin(t)
  \/ DiscoverScanEnd(t)
  \/ DPSeed(t)
  \/ DPFrontier(t)
  \/ DPBarrier(t)
  \/ DPCheck(t)
  \/ DPVisit(t)
  \/ DPHas(t)
  \/ DPPut(t)
  \/ DPEdgeCheck(t)
  \/ DPEdgeAppend(t)
  \/ DPSweepStart(t)
  \/ DPCheckPeer(t)
  \/ DPSweepEnd(t)
  \/ DPExport(t)

Next ==
  \/ do_GET_start
  \/ do_GET_network
  \/ do_GET_network_iter
  \/ send_json_end
  \/ EdgeCall
  \/ ClassifyCall
  \/ LogCall
  \/ PoolSubmit
  \/ PoolStart
  \/ PoolFinish
  \/ \E t \in DOMAIN th : ResetRun(t)
  \/ \E t \in DOMAIN th : LogStart(t)
  \/ \E t \in DOMAIN th : SeedQuery(t)
  \/ \E t \in DOMAIN th : SeedAdd(t)
  \/ \E t \in DOMAIN th : SeedMark(t)
  \/ \E t \in DOMAIN th : LogFound(t)
  \/ \E t \in DOMAIN th : Frontier(t)
  \/ \E t \in DOMAIN th : Dispatch(t)
  \/ \E t \in DOMAIN th : Barrier(t)
  \/ \E t \in DOMAIN th : Complete(t)
  \/ \E t \in DOMAIN th : LogDone(t)
  \/ \E t \in DOMAIN th : WorkerGet(t)
  \/ \E t \in DOMAIN th : WorkerQuery(t)
  \/ \E t \in DOMAIN th : WorkerUpdate(t)
  \/ \E t \in DOMAIN th : WorkerStats(t)
  \/ \E t \in DOMAIN th : WorkerMark(t)
  \/ \E t \in DOMAIN th : DiscoverCheck(t)
  \/ \E t \in DOMAIN th : DiscoverVisit(t)
  \/ \E t \in DOMAIN th : DiscoverAddNode(t)
  \/ \E t \in DOMAIN th : DiscoverAddEdge(t)
  \/ \E t \in DOMAIN th : DiscoverScanBegin(t)
  \/ \E t \in DOMAIN th : DiscoverScanEnd(t)
  \/ \E t \in DOMAIN th : DPSeed(t)
  \/ \E t \in DOMAIN th : DPFrontier(t)
  \/ \E t \in DOMAIN th : DPBarrier(t)
  \/ \E t \in DOMAIN th : DPCheck(t)
  \/ \E t \in DOMAIN th : DPVisit(t)
  \/ \E t \in DOMAIN th : DPHas(t)
  \/ \E t \in DOMAIN th : DPPut(t)
  \/ \E t \in DOMAIN th : DPEdgeCheck(t)
  \/ \E t \in DOMAIN th : DPEdgeAppend(t)
  \/ \E t \in DOMAIN th : DPSweepStart(t)
  \/ \E t \in DOMAIN th : DPCheckPeer(t)
  \/ \E t \in DOMAIN th : DPSweepEnd(t)
  \/ \E t \in DOMAIN th : DPExport(t)

Spec == Init /\ [][Next]_vars

\* some thread takes a step
Progress == \E t \in DOMAIN th : ThreadStep(t)

\* the scheduler does not stop while a thread can take a step; nothing makes
\* the browser send another /api/start
FairSpec == Spec /\ WF_vars(Progress)

----------------------------------------------------------------------------
(* Properties *)

\* the runs of start_discovery that have begun and not ended
ActiveRuns == {t \in Mains : th[t].pc \notin {"done", "dead"}}

\* the entries of the edge list that join a and b
PairEntries(E, a, b) ==
  {k \in 1..Len(E) :
     {E[k].source, E[k].target} = {a, b}}

\* C1: within a single run, query_net_info is executed at most once for
\* every RPC address, in every interleaving of the expansion tasks.
C1_VisitOnce ==
  Cardinality(Mains) <= 1 => \A u \in DOMAIN queried : queried[u] <= 1

\* crawl_network has returned
DPCrawlReturned ==
  prog = "dp" /\ th[Main(1)].pc \in {"dp_sweep", "dp_sweep_wait", "dp_done", "dp_exported"}

\* C2: in a finite closed network the crawl loop runs finitely often and the
\* run reaches complete: once the status is discovering it becomes complete
\* (peer_network.py), crawl_network returns (discover_peers.py), and the
\* iteration counter stays below its cap.
C2_Termination ==
  /\ (prog = "pn" /\ status = "discovering") ~> (status = "complete")
  /\ (prog = "dp") ~> DPCrawlReturned
  /\ [](\A t \in Mains : th[t].iter < IterCap)

\* a run is complete after two iterations of the crawl loop
C2_Witness ==
  /\ prog = "pn" /\ status = "complete"
  /\ \E t \in Mains : th[t].iter = 2 /\ th[t].pc = "done"

\* C3: there is never a state in which two start_discovery executions are
\* both in progress.
C3_OneRunAtATime == Cardinality(ActiveRuns) <= 1

\* C4: a start request handled while the status is discovering is answered
\* already_running, starts no thread and leaves the run state unchanged.
C4_RejectedStart ==
  [][(startsLeft' # startsLeft /\ status = "discovering")
       => (resp' = "already_running" /\ th' = th /\ UNCHANGED runState)]_vars

\* a start request has been answered already_running
C4_Witness == resp = "already_running" /\ status = "discovering"

\* C5: when a run queries its first seed every run state field is empty or
\* zero, the status is discovering, and nothing of another run is visible:
\* the log holds messages of this run only.
C5_FreshRun ==
  \A t \in Mains :
    (th[t].pc = "seed_log" /\ th[t].i = 1) =>
      /\ status = "discovering"
      /\ nodes = EmptyMap /\ edges = << >> /\ edge_set = {}
      /\ visited_rpcs = {} /\ stats = ZeroStats
      /\ \A k \in 1..Len(discovery_log) : discovery_log[k][1] = t[1]

\* C6: add_edge(A,B) followed by add_edge(A,B) or add_edge(B,A), A # B,
\* leaves exactly one edge for the pair, and a call for a pair that was
\* added before changes nothing.
C6_EdgeIdempotent ==
  [][\A a \in EdgeArgs, b \in EdgeArgs :
       (a # b /\ lastCall' = Append(lastCall, <<a, b>>)) =>
         /\ Cardinality(PairEntries(edges', a, b)) = 1
         /\ (\E k \in 1..Len(lastCall) : lastCall[k] \in {<<a, b>>, <<b, a>>})
              => (edges' = edges /\ edge_set' = edge_set /\ stats' = stats)
    ]_vars

\* add_edge(A,B) then add_edge(B,A) have been called, A # B
C6_Witness ==
  /\ prog = "edge"
  /\ \E k \in 1..Len(lastCall) : \E l \in (k + 1)..Len(lastCall) :
       /\ lastCall[k][1] # lastCall[k][2]
       /\ lastCall[l] = <<lastCall[k][2], lastCall[k][1]>>
       /\ Cardinality(PairEntries(edges, lastCall[k][1], lastCall[k][2])) = 1

\* C7: the edge list never holds two entries for the same unordered pair of
\* identities, in peer_network.py and in discover_peers.py.
C7_NoDuplicateEdge ==
  \A k \in 1..Len(edges) : \A l \in 1..Len(edges) :
    (k # l) => {edges[k].source, edges[k].target}
                 # {edges[l].source, edges[l].target}

\* C8: the edge list never holds an edge whose source equals its target.
C8_NoSelfLoop == \A k \in 1..Len(edges) : edges[k].source # edges[k].target

\* the fields of a record that an insertion under a known identity keeps
Identity(n) ==
  << n.id, n.ip, n.moniker, n.tendermint_version, n.type, n.org, n.rpc_url >>

\* C9: an insertion under an identity that is in the registry leaves the
\* record's address, name, version, role, organization and RPC address as
\* they were, for peer sightings and for seed insertion.
C9_IdentityKept ==
  [][\A id \in DOMAIN nodes :
       id \in DOMAIN nodes' => Identity(nodes'[id]) = Identity(nodes[id])]_vars

\* C10: no registry operation of a run (every step but the reset of a new
\* run) removes a node whose rpc_accessible flag is true or sets the flag
\* back to false.
C10_ReachabilityMonotonic ==
  [][\A id \in DOMAIN nodes :
       (nodes[id].rpc_accessible /\ gen' = gen) =>
          (id \in DOMAIN nodes' /\ nodes'[id].rpc_accessible)]_vars

\* a node whose flag is true has been sighted again in a peer list, which
\* calls add_node with rpc_accessible=False
C10_Witness ==
  /\ prog = "pn"
  /\ \E t \in DOMAIN th :
       /\ th[t].pc = "edge"
       /\ Head(th[t].peers).id \in DOMAIN nodes
       /\ nodes[Head(th[t].peers).id].rpc_accessible

\* the optional fields of a record are present
Present(v) == v # None

\* C11: within a run a node's application version and height never go from
\* present to absent, for peer sightings, for a second insertion as a seed
\* and for the reachability sweep.
C11_OptionalKept ==
  [][\A id \in DOMAIN nodes :
       (gen' = gen /\ id \in DOMAIN nodes')
         => /\ Present(nodes[id].dcl_version)
                 => Present(nodes'[id].dcl_version)
            /\ Present(nodes[id].height) => Present(nodes'[id].height)]_vars

\* the private and loopback prefixes: 10., 172.16. to 172.31., 192.168., 127.
Digit == <<"0","1","2","3","4","5","6","7","8","9">>

RangePrefixes ==
  { <<"1","7","2",".","1", Digit[d], ".">> : d \in 7..10 }
    \cup { <<"1","7","2",".","2", Digit[d], ".">> : d \in 1..10 }
    \cup { <<"1","7","2",".","3", Digit[d], ".">> : d \in 1..2 }

IsPrivateAddress(ip) ==
  \E pre \in RangePrefixes \cup { <<"1","0",".">>, <<"1","2","7",".">>,
                                  <<"1","9","2",".","1","6","8",".">> } :
    StartsWith(ip, pre)

\* every RPC address of the scenarios
AllUrls ==
  { Url(sch, h) : sch \in {"http", "https"},
                  h \in {HostA, HostB, IpA, IpB, IpC, IpD, IpX} }

\* the peer-list entries of a scenario
Sightings(sc) ==
  UNION { { PeersAt(sc, u)[k] : k \in 1..Len(PeersAt(sc, u)) } : u \in AllUrls }

\* the identities a scenario shows at private addresses only
PrivateOnly(sc) ==
  { p.id : p \in { q \in Sightings(sc) : IsPrivateAddress(q.remote_ip) } }
    \ ( { p.id : p \in { q \in Sightings(sc) :
                             ~IsPrivateAddress(q.remote_ip) } }
         \cup { StatusIdAt(sc, SeedNodes(sc)[k].url) :
                  k \in 1..Len(SeedNodes(sc)) } )

\* C12: a peer-list entry at a private or loopback address never becomes a
\* node, never becomes an edge endpoint, and its synthesized RPC address is
\* never in a frontier, in a task or in the visit set.
C12_PrivateExcluded ==
  /\ \A id \in DOMAIN nodes :
       /\ ~IsPrivateAddress(nodes[id].ip)
       /\ ~IsPrivateAddress(HostOf(nodes[id].rpc_url))
  /\ \A u \in visited_rpcs : ~IsPrivateAddress(HostOf(u))
  /\ \A t \in DOMAIN th :
       /\ ~IsPrivateAddress(HostOf(th[t].url))
       /\ th[t].front \cap PrivateOnly(net) = {}
  /\ \A k \in 1..Len(edges) :
       {edges[k].source, edges[k].target} \cap PrivateOnly(net) = {}

\* the peer list with the entries at 10.0.0.9 and 172.20.0.1 has been
\* handled to its end
C12_Witness ==
  /\ net = "selfloop"
  /\ "D" \in PrivateOnly(net)
  /\ "B" \in DOMAIN nodes
  /\ \E k \in 1..Len(edges) : edges[k].target = "B"

\* the unordered pairs the edge list joins
EdgePairs(E) == { {E[k].source, E[k].target} : k \in 1..Len(E) }

\* the crawl of a run has ended: status complete, or crawl_network returned
CrawlEnded ==
  \/ prog = "pn" /\ status = "complete"
  \/ DPCrawlReturned

\* C13: two seeds A and B whose peer lists hold only C, C's peer list adding
\* nothing new: the finished crawl has the nodes {A,B,C} and the two edges
\* {A,C} and {B,C}, in every interleaving.
C13_TwoSeeds ==
  (net = "two_seeds" /\ CrawlEnded)
    => /\ DOMAIN nodes = {"A", "B", "C"}
       /\ Len(edges) = 2
       /\ EdgePairs(edges) = { {"A", "C"}, {"B", "C"} }

\* a finished crawl of the two-seed network in which C has been queried
C13_Witness ==
  /\ net = "two_seeds" /\ CrawlEnded
  /\ Url("http", IpC) \in visited_rpcs
  /\ PeersAt(net, Url("https", HostA)) = << Peer("C", IpC, MonC) >>
  /\ PeersAt(net, Url("http", IpB)) = << Peer("C", IpC, MonC) >>

\* the runs that have made their reset and have not set the status complete
\* (or died)
BegunRuns ==
  {t \in Mains : th[t].pc \notin {"reset", "log_done", "done", "dead"}}

\* E continues the edge list F
Extends(E, F) == Len(F) <= Len(E) /\ SubSeq(E, 1, Len(F)) = F

\* C14: while a run is in progress the registry and the edge list only grow:
\* no identity leaves the registry, no edge leaves the edge list or changes.
C14_OnlyGrows ==
  [][BegunRuns # {}
       => /\ DOMAIN nodes \subseteq DOMAIN nodes'
          /\ Extends(edges', edges)]_vars

\* thread t is about to act on the result of an RPC call that failed: a
\* status query without answer, an app-info query without answer, a peer
\* list query that gave nothing
ActsOnFailure(t) ==
  LET T == th[t] IN
  \/ /\ T.pc \in {"seed_log", "dp_seed"}
     /\ \/ ~query_status(net, SeedNodes(net)[T.i].url).ok
        \/ /\ T.pc = "dp_seed"
           /\ query_abci_info(net, SeedNodes(net)[T.i].url) = None
  \/ T.pc = "log" /\ ~query_status(net, T.url).ok
  \/ T.pc \in {"seed_add", "upd"} /\ T.dcl = None
  \/ T.pc \in {"mark", "dmark"} /\ query_net_info(net, T.url) = << >>
  \/ /\ T.pc = "check" /\ T.id \in DOMAIN nodes
     /\ ~nodes[T.id].rpc_accessible
     /\ \/ ~query_status(net, nodes[T.id].rpc_url).ok
        \/ query_abci_info(net, nodes[T.id].rpc_url) = None

\* the node the failed call was about
QueriedNode(t) ==
  IF th[t].pc \in {"seed_log", "dp_seed"}
  THEN StatusIdAt(net, SeedNodes(net)[th[t].i].url)
  ELSE th[t].id

\* the stored data of a record is kept: the flag is not cleared, a stored
\* version or height stays what it was
KeepsData(old, new) ==
  /\ old.rpc_accessible => new.rpc_accessible
  /\ Present(old.dcl_version) => new.dcl_version = old.dcl_version
  /\ Present(old.height) => new.height = old.height

\* C15: the step that follows a failed RPC call does not abort its thread,
\* changes no edge and no record of another node, and leaves the queried
\* node with its flag and its stored data.
C15_FailureIsLocal ==
  [][\A t \in DOMAIN th :
       (ActsOnFailure(t) /\ t \in DOMAIN th' /\ th'[t] # th[t])
         => /\ th'[t].pc \notin {"dead", "exc"}
            /\ edges' = edges
            /\ \A id \in DOMAIN nodes :
                 /\ id \in DOMAIN nodes'
                 /\ KeepsData(nodes[id], nodes'[id])
                 /\ id # QueriedNode(t) => nodes'[id] = nodes[id]]_vars

RoleOrder == <<"validator", "sentry", "observer", "seed">>

\* the rule of a role holds of a lower-cased name
RuleHolds(role, m) ==
  CASE role = "validator" ->
         Contains(m, <<"-","v","n","-">>) \/ EndsWith(m, <<"-","v","n">>)
    [] role = "sentry" ->
         Contains(m, <<"-","s","n","-">>)
           \/ Contains(m, <<"s","e","n","t","r","y">>)
    [] role = "observer" ->
         Contains(m, <<"-","o","n","-">>)
           \/ Contains(m, <<"o","b","s","e","r","v","e","r">>)
    [] role = "seed" -> Contains(m, <<"s","e","e","d">>)

\* the rules that hold of a name
RulesOf(name) == {i \in 1..4 : RuleHolds(RoleOrder[i], Lower(name))}

\* the role of the first rule that holds
FirstMatch(name) ==
  IF RulesOf(name) = {} THEN "unknown"
  ELSE RoleOrder[CHOOSE i \in RulesOf(name) : \A j \in RulesOf(name) : i <= j]

\* C17: the role classifier gives the role of the first rule, in the order
\* validator, sentry, observer, seed, that holds of the lower-cased name,
\* and unknown when none holds; csa-vn-01 is validator, csa-sn-02 sentry,
\* xyz-observer observer, public-seed-1 seed and random unknown.
C17_RolePriority ==
  (prog = "classify" /\ ret # "none")
    => /\ ret = FirstMatch(arg)
       /\ arg = <<"c","s","a","-","v","n","-","0","1">> => ret = "validator"
       /\ arg = <<"c","s","a","-","s","n","-","0","2">> => ret = "sentry"
       /\ arg = <<"x","y","z","-","o","b","s","e","r","v","e","r">>
            => ret = "observer"
       /\ arg = <<"p","u","b","l","i","c","-","s","e","e","d","-","1">>
            => ret = "seed"
       /\ arg = <<"r","a","n","d","o","m">> => ret = "unknown"

\* a name of which the validator rule and the sentry rule hold has been
\* classified
C17_Witness ==
  /\ prog = "classify"
  /\ {1, 2} \subseteq RulesOf(arg)
  /\ ret = "validator"

\* the number of messages the log holds after n calls
Held(n) == IF n < LogMax THEN n ELSE LogMax

\* C18: the log never holds more than 100 messages; after n log calls it
\* holds the last min(n, 100) messages appended, in the order of the calls.
C18_LogBounded ==
  /\ Len(discovery_log) <= LogMax
  /\ prog = "log"
       => /\ Len(discovery_log) = Held(arg[2])
          /\ \A i \in 1..Len(discovery_log) :
               discovery_log[i] = <<"msg", arg[2] - Held(arg[2]) + i>>

\* more than 100 messages have been appended
C18_Witness ==
  /\ prog = "log"
  /\ arg[2] > LogMax
  /\ Len(discovery_log) = LogMax
  /\ discovery_log[LogMax] = arg
  /\ discovery_log[1] = <<"msg", arg[2] - LogMax + 1>>

\* the places of a run thread at which a frontier is computed or the crawl
\* loop has been left
BetweenBatches ==
  {"frontier", "log_crawl", "complete", "log_done", "done",
   "dp_frontier", "dp_sweep"}

\* C19: when a run computes a frontier, and when it sets the status to
\* complete, no expansion task it dispatched in an earlier iteration is
\* still running.
C19_LevelSynchronous ==
  \A t \in Mains : th[t].pc \in BetweenBatches => Workers(t[1]) = {}

\* a frontier is computed after a batch of two tasks that ran together
C19_Witness ==
  \E t \in Mains :
    /\ th[t].pc \in {"frontier", "dp_frontier"}
    /\ th[t].iter >= 1
    /\ Workers(t[1]) = {}
    /\ net = "mutual"
    /\ {Url("http", IpB), Url("http", IpC)} \subseteq visited_rpcs

\* C20: when the status is complete (one run, nothing overlapping it), the
\* RPC address of every node in the registry, seed or discovered peer, is in
\* the visit set.
C20_CompleteMeansVisited ==
  (prog = "pn" /\ status = "complete" /\ Cardinality(Mains) <= 1)
    => \A id \in DOMAIN nodes : nodes[id].rpc_url \in visited_rpcs

\* the places of a thread inside discover_from_node
InDiscover == {"mark", "node", "edge", "scan", "scan2",
               "dmark", "dhas", "dput", "dechk", "deadd"}

\* thread t returns from discover_from_node in this step (it does not raise)
Returns(t) ==
  /\ th[t].pc \in InDiscover
  /\ t \in DOMAIN th'
  /\ th'[t].pc \notin InDiscover \cup {"dead", "exc"}

\* a peer-list entry with an identity and a public address
PublicEntry(e) ==
  /\ Truthy(e.id)
  /\ TruthyStr(e.remote_ip)
  /\ ~IsPrivateAddress(e.remote_ip)

\* C21: when an expansion task returns (one run, nothing overlapping it),
\* every entry of the peer list it queried that has an identity and a public
\* address is in the registry, and the edge list joins the queried node and
\* that peer.
C21_PublicPeersKept ==
  [][\A t \in DOMAIN th :
       (Returns(t) /\ Cardinality(Mains) <= 1)
         => LET ps == query_net_info(net, th[t].url) IN
            \A k \in 1..Len(ps) :
              PublicEntry(ps[k])
                => /\ ps[k].id \in DOMAIN nodes'
                   /\ {th[t].id, ps[k].id} \in EdgePairs(edges')]_vars

\* a run has finished: the status is complete (one run, nothing overlapping
\* it), or the script has made its reachability sweep
RunFinished ==
  \/ prog = "pn" /\ status = "complete" /\ Cardinality(Mains) <= 1
  \/ prog = "dp" /\ th[Main(1)].pc \in {"dp_done", "dp_exported"}

\* C22: when a run has finished, every node whose RPC address answers the
\* status query has its reachability flag set.
C22_ReachableMarked ==
  RunFinished
    => \A id \in DOMAIN nodes :
         query_status(net, nodes[id].rpc_url).ok => nodes[id].rpc_accessible

\* the tasks in flight in the executors made with max_workers = m
RECURSIVE InFlight(_, _)
InFlight(P, m) ==
  IF P = << >> THEN 0
  ELSE (IF Head(P).max_workers = m THEN Head(P).running ELSE 0)
         + InFlight(Tail(P), m)

\* the expansion tasks in flight, and the sweep tasks in flight
ExpansionInFlight ==
  {w \in DOMAIN th : ~IsMain(w) /\ th[w].pc \notin {"check", "end", "exc"}}

SweepInFlight == {w \in DOMAIN th : th[w].pc = "check"}

\* C23: no more than 10 expansion tasks, and no more than 20 sweep tasks,
\* are in flight together, whatever the size of the batches.
C23_PoolBound ==
  /\ InFlight(pool, 10) <= 10
  /\ InFlight(pool, 20) <= 20
  /\ Cardinality(ExpansionInFlight) <= 10
  /\ Cardinality(SweepInFlight) <= 20

\* the seeds whose status query fails or gives no identity, and the others
BadSeeds ==
  {k \in 1..Len(SeedNodes(net)) :
     LET st == query_status(net, SeedNodes(net)[k].url) IN
     ~st.ok \/ st.id = None}

GoodSeeds == (1..Len(SeedNodes(net))) \ BadSeeds

\* C24: a seed whose status query fails or gives no identity gets no node,
\* its address is not visited and its peer list is not queried; the other
\* seeds are processed.
C24_BadSeedSkipped ==
  /\ None \notin DOMAIN nodes
  /\ \A k \in BadSeeds :
       LET u == SeedNodes(net)[k].url IN
       /\ u \notin visited_rpcs
       /\ u \notin DOMAIN queried
       /\ \A id \in DOMAIN nodes : nodes[id].ip # HostOf(u)
  /\ (CrawlEnded /\ Cardinality(Mains) <= 1)
       => \A k \in GoodSeeds :
            LET u == SeedNodes(net)[k].url IN
            /\ StatusIdAt(net, u) \in DOMAIN nodes
            /\ u \in visited_rpcs

\* the crawl has ended after a seed without answer, a seed without identity
\* and a good seed
C24_Witness ==
  /\ net = "bad_seed" /\ CrawlEnded
  /\ BadSeeds = {1, 2}
  /\ query_status(net, SeedNodes(net)[2].url).ok
  /\ "A" \in DOMAIN nodes

\* a peer-list entry without identity or without address
Malformed(e) == e.id \in {None, ""} \/ e.remote_ip = << >>

\* the identities a scenario shows in malformed entries only
MalformedOnly(sc) ==
  { p.id : p \in { q \in Sightings(sc) : Malformed(q) } }
    \ ( { p.id : p \in { q \in Sightings(sc) : ~Malformed(q) } }
         \cup { StatusIdAt(sc, SeedNodes(sc)[k].url) :
                  k \in 1..Len(SeedNodes(sc)) } )

\* C25: a peer-list entry without identity or without address adds no node
\* and no edge, and when the task returns (one run) every entry of the list
\* that is neither malformed nor filtered as private is in the registry and
\* joined to the queried node.
C25_MalformedSkipped ==
  /\ [](/\ DOMAIN nodes \cap (MalformedOnly(net) \cup {None, ""}) = {}
        /\ \A k \in 1..Len(edges) :
             {edges[k].source, edges[k].target}
               \cap (MalformedOnly(net) \cup {None, ""}) = {})
  /\ [][\A t \in DOMAIN th :
          (Returns(t) /\ Cardinality(Mains) <= 1)
            => LET ps == query_net_info(net, th[t].url) IN
               \A k \in 1..Len(ps) :
                 (~Malformed(ps[k]) /\ ~is_private_ip(ps[k].remote_ip))
                   => /\ ps[k].id \in DOMAIN nodes'
                      /\ {th[t].id, ps[k].id} \in EdgePairs(edges')]_vars

\* the peer list with an entry without identity and an entry without address
\* has been handled: the entry after them is in, the malformed ones are not
C25_Witness ==
  /\ net = "selfloop"
  /\ "C" \in MalformedOnly(net)
  /\ DOMAIN nodes = {"A", "B"}
  /\ {"A", "B"} \in EdgePairs(edges)
  /\ \A t \in DOMAIN th : th[t].pc \notin InDiscover

\* an exposed record has the key "_discovered"
HasInternalField(rec) == rec.discovered

\* C26: no node record of an answer to GET /api/network, or of the exported
\* network.json, has the key "_discovered".
C26_NoInternalField ==
  \A item \in snap.nodes : ~HasInternalField(item[2])

\* the node ids an edge list names
Endpoints(E) ==
  UNION {{E[k].source, E[k].target} : k \in 1..Len(E)}

\* C27: in every state of a single run, both endpoints of every edge are
\* ids of the node registry.
C27_EdgesClosed ==
  (prog \in {"pn", "dp"} /\ Cardinality(Mains) <= 1)
    => Endpoints(edges) \subseteq DOMAIN nodes

\* a single run of peer_network.py has ended with the edges {A,B}, {A,C} and
\* an edge between two peers, all between registered nodes
C27_Witness ==
  /\ prog = "pn" /\ net = "mutual" /\ Cardinality(Mains) = 1
  /\ status = "complete"
  /\ Len(edges) >= 3
  /\ Endpoints(edges) = DOMAIN nodes

\* C28: when a single run of peer_network.py is complete, the counters
\* equal what they count: accessible_rpc the nodes whose rpc_accessible is
\* true (seeds included), total_nodes the registry, total_edges the edge list.
C28_StatsAgree ==
  (prog = "pn" /\ status = "complete" /\ Cardinality(Mains) <= 1)
    => /\ stats.accessible_rpc = AccessibleCount(nodes)
       /\ stats.total_nodes = Cardinality(DOMAIN nodes)
       /\ stats.total_edges = Len(edges)

\* C29: for a fixed network the node ids and the undirected edges of a
\* completed single run are the same for every interleaving of the tasks;
\* here for the seed A whose peers B and C share one RPC address, at which
\* the peer list names A and D.
C29_OutcomeFixed ==
  (net = "shared_addr" /\ CrawlEnded /\ Cardinality(Mains) <= 1)
    => /\ DOMAIN nodes = {"A", "B", "C", "D"}
       /\ EdgePairs(edges) = {{"A", "B"}, {"A", "C"}, {"B", "D"}}

====
